---------------------------- MODULE Spec2Model ----------------------------
(***************************************************************************)
(* Model of the git auto-update flow of the yuuka-comfyui custom nodes     *)
(* (update.py): the command runner, the update checker, the update applier *)
(* and the one-shot orchestrator, and of the bootstrap loader              *)
(* (yuuka_auto_update.py).  Spec has the host call the functions of        *)
(* update.py; LoaderSpec has it call ensure_auto_update, as __init__.py    *)
(* does; ThreadSpec has several threads call auto_update_if_needed() at   *)
(* the same time.                                                          *)
(*                                                                         *)
(* Text.  A Python str is a finite sequence of chunks; a chunk is a        *)
(* non-empty TLA+ string and the str denoted is the concatenation of its   *)
(* chunks, Join(s).  In every input the white-space characters, the line   *)
(* break, the path separator and the literals the code matches against     *)
(* ("requirements.txt", "plugin.json") are chunks of their own, and the    *)
(* value of the environment toggle is given character by character, so     *)
(* strip, lower, splitlines, endswith and membership are computed on the   *)
(* chunks the way Python computes them on characters.                      *)
(* An Optional[str] is <<>> (None) or <<s>>.                               *)
(***************************************************************************)
EXTENDS Integers, Sequences, FiniteSets, TLC

VARIABLES
    _AUTO_UPDATE_RAN,    \* update.py: the module-level one-shot flag
    environ,             \* os.environ["YUUKA_COMFYUI_AUTO_UPDATE"], None when unset
    gitDirExists,        \* (REPO_ROOT / ".git").exists()
    requirementsExists,  \* (REPO_ROOT / "requirements.txt").exists()
    pc,                  \* where the running call stands: the git command it is about to run
    top,                 \* the function the host called
    force,               \* the argument of auto_update_if_needed
    ranAtEntry,          \* the value of the flag when the running call was entered
    local_hash,          \* check_for_updates: local variables
    remote_hash,
    checked,             \* the tuple check_for_updates returned in this call, None before
    lastRun,             \* the last _run_git_command call: its command, outcome and result
    trace,               \* the observable events of the running call, in order
    outcome,             \* "none", "running", "returned" or "raised"
    retval,              \* the bool returned by auto_update_if_needed / perform_update
    calls,               \* host calls made so far
    autoCalls,           \* of these, the calls of auto_update_if_needed
    sysModules,          \* "yuuka_comfyui._internal_update" in sys.modules
    moduleExecuted,      \* the module registered under that key ran to completion
    lastLoad,            \* what the last _load_update_module call did
    loads,               \* modules executed to completion by _load_update_module
    loaderFetches,       \* git fetch commands run under ensure_auto_update
    tpc,                 \* ThreadSpec: where each thread stands in auto_update_if_needed()
    raced,               \* ThreadSpec: a thread read the flag between another's read and write
    threadFetches        \* ThreadSpec: git fetch commands run by the threads

vars == <<_AUTO_UPDATE_RAN, environ, gitDirExists, requirementsExists, pc, top,
          force, ranAtEntry, local_hash, remote_hash, checked, lastRun, trace,
          outcome, retval, calls, autoCalls,
          sysModules, moduleExecuted, lastLoad, loads, loaderFetches,
          tpc, raced, threadFetches>>

threadVars == <<tpc, raced, threadFetches>>

loaderVars == <<sysModules, moduleExecuted, lastLoad, loads>>

\* The number of calls the host makes in one process.
MaxCalls == 3

\* The number of threads that call auto_update_if_needed() at the same time.
NumThreads == 2

Threads == 1..NumThreads

---------------------------------------------------------------------------
(* Text *)

None == <<>>
Some(s) == <<s>>

RECURSIVE Join(_)
Join(s) == IF s = <<>> THEN "" ELSE Head(s) \o Join(Tail(s))

WhiteSpace == {" ", "\n", "\t"}

RECURSIVE lstrip(_)
lstrip(s) == IF s # <<>> /\ Head(s) \in WhiteSpace THEN lstrip(Tail(s)) ELSE s

RECURSIVE rstrip(_)
rstrip(s) ==
    IF s # <<>> /\ s[Len(s)] \in WhiteSpace THEN rstrip(SubSeq(s, 1, Len(s) - 1)) ELSE s

\* str.strip()
strip(s) == rstrip(lstrip(s))

UpperCase == <<"A","B","C","D","E","F","G","H","I","J","K","L","M",
               "N","O","P","Q","R","S","T","U","V","W","X","Y","Z">>
LowerCase == <<"a","b","c","d","e","f","g","h","i","j","k","l","m",
               "n","o","p","q","r","s","t","u","v","w","x","y","z">>

lowerChar(c) ==
    IF \E i \in 1..Len(UpperCase) : UpperCase[i] = c
    THEN LowerCase[CHOOSE i \in 1..Len(UpperCase) : UpperCase[i] = c]
    ELSE c

\* str.lower()
lower(s) == [i \in 1..Len(s) |-> lowerChar(s[i])]

\* str.splitlines(): the lines between the line breaks; no empty last line
RECURSIVE splitlinesFrom(_, _)
splitlinesFrom(s, cur) ==
    IF s = <<>> THEN (IF cur = <<>> THEN <<>> ELSE <<cur>>)
    ELSE IF Head(s) = "\n" THEN <<cur>> \o splitlinesFrom(Tail(s), <<>>)
    ELSE splitlinesFrom(Tail(s), Append(cur, Head(s)))

splitlines(s) == splitlinesFrom(s, <<>>)

\* str.endswith(suffix), suffix one chunk
endswith(s, suffix) == s # <<>> /\ s[Len(s)] = suffix

\* bool(x) of an Optional[str]: None and "" are falsy
Truthy(x) == x # None /\ Join(x[1]) # ""

\* f"{x}" of an Optional[str]
Format(x) == IF x = None THEN <<"None">> ELSE x[1]

---------------------------------------------------------------------------
(* The outcomes of one subprocess.run(command, check=True, ...) *)

Outcome(k, out, err, txt, ps) ==
    [kind |-> k, stdout |-> out, stderr |-> err, text |-> txt, paths |-> ps]

\* exit code 0 with the given captured stdout
Exit0(out) == Outcome("ok", out, <<>>, <<>>, <<>>)

\* What can go wrong with any command.
Failures ==
    { Outcome("FileNotFoundError", <<>>, <<>>, <<>>, <<>>),
      Outcome("CalledProcessError", <<>>, <<"network unreachable", "\n">>, <<>>, <<>>),
      Outcome("CalledProcessError", <<"Aborting", "\n">>, <<>>, <<>>, <<>>),
      Outcome("CalledProcessError", <<"Aborting", "\n">>, <<" ", "\n">>, <<>>, <<>>),
      \* a git killed by a signal: non-zero exit, nothing captured
      Outcome("CalledProcessError", <<>>, <<>>, <<>>, <<>>),
      Outcome("Exception", <<>>, <<>>, <<"[Errno 13] Permission denied">>, <<>>),
      \* an exception whose str() is empty, such as MemoryError()
      Outcome("Exception", <<>>, <<>>, <<>>, <<>>) }

Hashes == { <<"a1b2c3">>, <<"d4e5f6">> }

\* The path lists `git diff --name-only` prints.
PathLists ==
    { <<>>,
      << <<"readme.md">> >>,
      << <<"requirements.txt">> >>,
      << <<"subdir", "/", "plugin.json">> >>,
      << <<"plugin.json">>, <<"readme.md">> >>,
      << <<"subdir", "/", "requirements.txt">>, <<"readme.md">> >>,
      << <<"my", "plugin.json">> >>,
      << <<"plugin.json", "/", "readme.md">>, <<"plugin.json", ".bak">> >> }

\* git prints one path per line
RECURSIVE PrintLines(_)
PrintLines(ps) == IF ps = <<>> THEN <<>> ELSE Head(ps) \o <<"\n">> \o PrintLines(Tail(ps))

FetchOutcomes == { Exit0(<<>>) } \cup Failures
RevParseOutcomes == { Exit0(h \o <<"\n">>) : h \in Hashes } \cup Failures
DiffOutcomes ==
    { Outcome("ok", PrintLines(ps), <<>>, <<>>, ps) : ps \in PathLists } \cup Failures
PullOutcomes ==
    { Exit0(<<>>), Exit0(<<"Updating a1b2c3..d4e5f6", "\n", "Fast-forward", "\n">>) }
        \cup Failures

---------------------------------------------------------------------------
(* update.py *)

UP_TO_DATE == 0
AHEAD == 1
ERROR == -1
SKIP == 2

\* _run_git_command with the captured streams returned as they are, not stripped
_run_git_command_unstripped(o) ==
    CASE o.kind = "ok" -> <<Some(o.stdout), None>>
      [] o.kind = "FileNotFoundError" ->
            <<None, Some(<<"Git executable not found. Please install Git and make sure it is on PATH.">>)>>
      [] o.kind = "CalledProcessError" ->
            <<None, Some(IF Join(o.stderr) # "" THEN o.stderr ELSE o.stdout)>>
      [] OTHER -> <<None, Some(o.text)>>

\* _run_git_command: the (output, error) pair for an outcome of subprocess.run
_run_git_command(o) ==
    CASE o.kind = "ok" -> <<Some(strip(o.stdout)), None>>
      [] o.kind = "FileNotFoundError" ->
            <<None, Some(<<"Git executable not found. Please install Git and make sure it is on PATH.">>)>>
      [] o.kind = "CalledProcessError" ->
            <<None, Some(IF Join(strip(o.stderr)) # "" THEN strip(o.stderr)
                         ELSE strip(o.stdout))>>
      [] OTHER -> <<None, Some(o.text)>>

\* The events a call leaves in the trace.
GitEvent(command, o) == [kind |-> "git", arg |-> command, ok |-> o.kind = "ok"]
_log(message) == [kind |-> "log", arg |-> message, ok |-> TRUE]
GetEnvEvent == [kind |-> "getenv", arg |-> <<"YUUKA_COMFYUI_AUTO_UPDATE">>, ok |-> TRUE]
SetFlagEvent == [kind |-> "setflag", arg |-> <<>>, ok |-> TRUE]

\* _is_git_repo probing the repository root instead of the .git marker
RepoRootExists == TRUE

\* _is_git_repo
_is_git_repo == gitDirExists

\* the gate without the force test
GateClosedOnceRan(ran, f) == ran

\* the gate with the force test inverted
GateClosedWhenForced(ran, f) == ran /\ f

\* the gate of auto_update_if_needed
GateClosed(ran, f) == ran /\ ~f

\* the toggle read without .lower()
EnvValueNotLowered(e) == strip(IF e = None THEN <<"1">> ELSE e[1])

\* os.getenv("YUUKA_COMFYUI_AUTO_UPDATE", "1").strip().lower()
EnvValue(e) == lower(strip(IF e = None THEN <<"1">> ELSE e[1]))

\* env_value in {"0", "false", "off"}
Disabled(env_value) == Join(env_value) \in {"0", "false", "off"}

\* the comparison by identity (is) instead of equality: true of None alone
SameCommitByIdentity(l, r) == l = None /\ r = None

\* local_hash == remote_hash
SameCommit(l, r) == l = r

\* changed_files: the stripped, non-empty lines of the listing
ChangedFiles(changed_files_str) ==
    LET lines == splitlines(changed_files_str)
    IN  SelectSeq([i \in 1..Len(lines) |-> strip(lines[i])], LAMBDA l : l # <<>>)

\* the classification with a suffix match for both file names
DependenciesChangedBySuffix(changed_files) ==
    \/ \E i \in 1..Len(changed_files) : endswith(changed_files[i], "requirements.txt")
    \/ \E i \in 1..Len(changed_files) : endswith(changed_files[i], "plugin.json")

\* "requirements.txt" in changed_files or any(name.endswith("plugin.json") ...)
DependenciesChanged(changed_files) ==
    \/ \E i \in 1..Len(changed_files) : Join(changed_files[i]) = "requirements.txt"
    \/ \E i \in 1..Len(changed_files) : endswith(changed_files[i], "plugin.json")

CheckResult(st, msg, deps) ==
    [status |-> st, message |-> msg, dependencies_changed |-> deps]

Running(p, tr) ==
    /\ pc' = p
    /\ outcome' = "running"
    /\ retval' = FALSE
    /\ trace' = tr

Return(tr, rv) ==
    /\ pc' = "idle"
    /\ outcome' = "returned"
    /\ retval' = rv
    /\ trace' = tr

\* no except clause around the call
CaughtNowhere(t) == FALSE

\* ensure_auto_update: try ... except Exception
Caught(t) == t = "ensure_auto_update"

\* an exception with the given text leaves the function t called by the host,
\* unless t catches and prints it
Raise(t, tr, text) ==
    IF Caught(t)
    THEN Return(Append(tr, _log(<<"Skipping due to unexpected error: ">> \o text)), FALSE)
    ELSE /\ pc' = "idle"
         /\ outcome' = "raised"
         /\ retval' = FALSE
         /\ trace' = tr

\* perform_update up to its git command
PerformUpdateBegin(tr) ==
    Running("pull",
            Append(tr, _log(<<"Attempting to fast-forward repository with 'git pull --ff-only'.">>)))

\* check_for_updates going on to apply the update itself
CheckReturnsAndApplies(t, r, tr) ==
    /\ checked' = Some(r)
    /\ IF r.status = ERROR THEN Return(Append(tr, _log(r.message)), FALSE)
       ELSE IF r.status = SKIP THEN Return(Append(tr, _log(r.message)), FALSE)
       ELSE IF r.status = UP_TO_DATE THEN Return(tr, FALSE)
       ELSE PerformUpdateBegin(Append(tr, _log(r.message)))

\* check_for_updates returns r to the function t the host called; for
\* auto_update_if_needed the call goes on with the lines after the check.
CheckReturns(t, r, tr) ==
    /\ checked' = Some(r)
    /\ IF t = "check_for_updates" THEN Return(tr, FALSE)
       ELSE IF r.status = ERROR THEN Return(Append(tr, _log(r.message)), FALSE)
       ELSE IF r.status = SKIP THEN Return(Append(tr, _log(r.message)), FALSE)
       ELSE IF r.status = UP_TO_DATE THEN Return(tr, FALSE)
       ELSE PerformUpdateBegin(Append(tr, _log(r.message)))

\* check_for_updates up to its first git command
CheckBegin(t, tr) ==
    IF ~_is_git_repo
    THEN CheckReturns(t, CheckResult(SKIP, <<"Git repository not detected; auto-update skipped.">>, FALSE), tr)
    ELSE checked' = None /\ Running("fetch", tr)

Idle == pc = "idle" /\ calls < MaxCalls

Enter(t, f) ==
    /\ top' = t
    /\ force' = f
    /\ calls' = calls + 1
    /\ autoCalls' = IF t = "auto_update_if_needed" THEN autoCalls + 1 ELSE autoCalls
    /\ local_hash' = None
    /\ remote_hash' = None
    /\ lastRun' = None
    /\ UNCHANGED <<environ, gitDirExists, requirementsExists, threadVars>>

\* the assignment after the gate left out
FlagLeftAsItWas == _AUTO_UPDATE_RAN

\* _AUTO_UPDATE_RAN = True, the value the flag has after the gate
FlagAfterGate == TRUE

\* auto_update_if_needed(f) up to its first git command, called through t on
\* a module whose flag is ran
AutoUpdateBegin(t, f, ran) ==
    /\ ranAtEntry' = ran
    /\ IF GateClosed(ran, f)
       THEN /\ _AUTO_UPDATE_RAN' = ran
            /\ checked' = None
            /\ Return(<<>>, FALSE)
       ELSE /\ _AUTO_UPDATE_RAN' = FlagAfterGate
            /\ IF Disabled(EnvValue(environ))
               THEN /\ checked' = None
                    /\ Return(<<SetFlagEvent, GetEnvEvent,
                                _log(<<"Auto-update disabled via YUUKA_COMFYUI_AUTO_UPDATE environment variable.">>)>>,
                              FALSE)
               ELSE CheckBegin(t, <<SetFlagEvent, GetEnvEvent>>)

\* the host calls auto_update_if_needed(force)
AutoUpdateIfNeeded(f) ==
    /\ Idle
    /\ Enter("auto_update_if_needed", f)
    /\ AutoUpdateBegin("auto_update_if_needed", f, _AUTO_UPDATE_RAN)
    /\ UNCHANGED <<loaderVars, loaderFetches>>

\* the host calls check_for_updates()
CheckForUpdates ==
    /\ Idle
    /\ Enter("check_for_updates", FALSE)
    /\ UNCHANGED _AUTO_UPDATE_RAN
    /\ ranAtEntry' = _AUTO_UPDATE_RAN
    /\ CheckBegin("check_for_updates", <<>>)
    /\ UNCHANGED <<loaderVars, loaderFetches>>

\* the host calls perform_update()
PerformUpdate ==
    /\ Idle
    /\ Enter("perform_update", FALSE)
    /\ UNCHANGED _AUTO_UPDATE_RAN
    /\ ranAtEntry' = _AUTO_UPDATE_RAN
    /\ checked' = None
    /\ PerformUpdateBegin(<<>>)
    /\ UNCHANGED <<loaderVars, loaderFetches>>

\* What _load_update_module finds: no update.py, no spec or loader for it, a
\* module whose execution raises, a module that executes.
LoadOutcomes == {"absent", "nospec", "raises", "executes"}

\* the failed module left in sys.modules
EntryKeptAfterFailure == TRUE

\* sys.modules.pop(_MODULE_NAME, None): the key after a failed exec_module
EntryAfterFailure == FALSE

\* a lookup that never finds the module
NeverRegistered(registered) == FALSE

\* module = sys.modules.get(_MODULE_NAME); if module:
Registered(registered) == registered

\* the host calls ensure_auto_update(): _load_update_module(), then
\* module.auto_update_if_needed() up to its first git command
EnsureAutoUpdate ==
    /\ Idle
    /\ Enter("ensure_auto_update", FALSE)
    /\ UNCHANGED loaderFetches
    /\ IF Registered(sysModules)
       THEN /\ lastLoad' = "reused"
            /\ UNCHANGED <<sysModules, moduleExecuted, loads>>
            /\ IF moduleExecuted
               THEN AutoUpdateBegin("ensure_auto_update", FALSE, _AUTO_UPDATE_RAN)
               \* hasattr(module, "auto_update_if_needed") is false
               ELSE /\ ranAtEntry' = _AUTO_UPDATE_RAN
                    /\ UNCHANGED _AUTO_UPDATE_RAN
                    /\ checked' = None
                    /\ Return(<<>>, FALSE)
       ELSE \E found \in LoadOutcomes :
            /\ lastLoad' = found
            /\ IF found = "executes"
               THEN /\ sysModules' = TRUE
                    /\ moduleExecuted' = TRUE
                    /\ loads' = loads + 1
                    \* the new module starts with _AUTO_UPDATE_RAN = False
                    /\ AutoUpdateBegin("ensure_auto_update", FALSE, FALSE)
               ELSE /\ UNCHANGED <<_AUTO_UPDATE_RAN, loads>>
                    /\ ranAtEntry' = _AUTO_UPDATE_RAN
                    /\ checked' = None
                    /\ IF found = "raises"
                       THEN /\ sysModules' = EntryAfterFailure
                            /\ moduleExecuted' = FALSE
                            /\ Raise("ensure_auto_update", <<>>, <<"invalid syntax">>)
                       ELSE /\ UNCHANGED <<sysModules, moduleExecuted>>
                            /\ Return(<<>>, FALSE)

\* a step of the running call: one git command and the code up to the next one
Step(command, o) ==
    /\ lastRun' = Some([command |-> command, outcome |-> o, result |-> _run_git_command(o)])
    /\ UNCHANGED <<_AUTO_UPDATE_RAN, environ, gitDirExists, requirementsExists,
                   top, force, ranAtEntry, calls, autoCalls, loaderVars, threadVars>>
    /\ loaderFetches' = IF command = <<"git", "fetch">> /\ top = "ensure_auto_update"
                        THEN loaderFetches + 1 ELSE loaderFetches

\* _, error = _run_git_command(["git", "fetch"])
GitFetch ==
    /\ pc = "fetch"
    /\ \E o \in FetchOutcomes :
        LET command == <<"git", "fetch">>
            error == _run_git_command(o)[2]
            tr == Append(trace, GitEvent(command, o))
        IN  /\ Step(command, o)
            /\ UNCHANGED <<local_hash, remote_hash>>
            /\ IF Truthy(error)
               THEN CheckReturns(top, CheckResult(ERROR, <<"Failed to fetch from remote: ">> \o error[1], FALSE), tr)
               ELSE UNCHANGED checked /\ Running("rev-parse HEAD", tr)

\* local_hash, error = _run_git_command(["git", "rev-parse", "HEAD"])
GitRevParseHead ==
    /\ pc = "rev-parse HEAD"
    /\ \E o \in RevParseOutcomes :
        LET command == <<"git", "rev-parse", "HEAD">>
            r == _run_git_command(o)
            tr == Append(trace, GitEvent(command, o))
        IN  /\ Step(command, o)
            /\ local_hash' = r[1]
            /\ UNCHANGED remote_hash
            /\ IF Truthy(r[2])
               THEN CheckReturns(top, CheckResult(ERROR, <<"Cannot determine local HEAD: ">> \o r[2][1], FALSE), tr)
               ELSE UNCHANGED checked /\ Running("rev-parse @{u}", tr)

\* remote_hash, error = _run_git_command(["git", "rev-parse", "@{u}"])
GitRevParseUpstream ==
    /\ pc = "rev-parse @{u}"
    /\ \E o \in RevParseOutcomes :
        LET command == <<"git", "rev-parse", "@{u}">>
            r == _run_git_command(o)
            tr == Append(trace, GitEvent(command, o))
        IN  /\ Step(command, o)
            /\ remote_hash' = r[1]
            /\ UNCHANGED local_hash
            /\ IF Truthy(r[2])
               THEN CheckReturns(top,
                        CheckResult(ERROR,
                            <<"Cannot determine upstream commit. Is this branch tracking a remote? ",
                              "Git error: ">> \o r[2][1], FALSE), tr)
               ELSE IF SameCommit(local_hash, r[1])
               THEN CheckReturns(top, CheckResult(UP_TO_DATE, <<"Repository already up to date.">>, FALSE), tr)
               ELSE UNCHANGED checked /\ Running("diff", tr)

\* changed_files_str, error = _run_git_command(["git", "diff", "--name-only", ...])
GitDiff ==
    /\ pc = "diff"
    /\ \E o \in DiffOutcomes :
        LET command == <<"git", "diff", "--name-only",
                         Join(Format(local_hash) \o <<"..">> \o Format(remote_hash))>>
            r == _run_git_command(o)
            tr == Append(trace, GitEvent(command, o))
        IN  /\ Step(command, o)
            /\ UNCHANGED <<local_hash, remote_hash>>
            /\ IF Truthy(r[2])
               THEN CheckReturns(top,
                        CheckResult(AHEAD, <<"Update detected (changed files could not be listed).">>, TRUE), tr)
               ELSE IF r[1] = None
               \* None.splitlines(): AttributeError
               THEN UNCHANGED checked
                    /\ Raise(top, tr, <<"'NoneType' object has no attribute 'splitlines'">>)
               ELSE CheckReturns(top,
                        CheckResult(AHEAD, <<"Update detected on remote branch.">>,
                                    DependenciesChanged(ChangedFiles(r[1][1]))), tr)

\* output, error = _run_git_command(["git", "pull", "--ff-only"]) and the rest
\* of perform_update and of auto_update_if_needed
GitPull ==
    /\ pc = "pull"
    /\ \E o \in PullOutcomes :
        LET command == <<"git", "pull", "--ff-only">>
            r == _run_git_command(o)
            tr == Append(trace, GitEvent(command, o))
            pulled == Append(tr, IF Truthy(r[1])
                                 THEN _log(<<"Pull output:", "\n">> \o r[1][1])
                                 ELSE _log(<<"Repository already up to date after pull.">>))
            restart == Append(pulled, _log(<<"Repository updated successfully. Please restart ComfyUI to load the new code.">>))
        IN  /\ Step(command, o)
            /\ UNCHANGED <<local_hash, remote_hash, checked>>
            /\ IF Truthy(r[2])
               THEN Return(Append(tr, _log(<<"Failed to apply update automatically: ">> \o r[2][1])), FALSE)
               ELSE IF top = "perform_update" THEN Return(pulled, TRUE)
               ELSE IF checked[1].dependencies_changed /\ requirementsExists
               THEN Return(Append(restart,
                        _log(<<"Detected dependency changes. ",
                               "Run 'pip install -r requirements.txt' if additional packages are required.">>)),
                        TRUE)
               ELSE Return(restart, TRUE)

\* The values of the environment toggle.
EnvValues ==
    { None,
      Some(<<"1">>),
      Some(<<"0">>),
      Some(<<" ", "0", "\n">>),
      Some(<<"f","a","l","s","e">>),
      Some(<<"F","a","l","s","e">>),
      Some(<<"O","F","F">>),
      Some(<<"o","f","F"," ">>),
      Some(<<>>),
      Some(<<"n","o">>),
      Some(<<"0","0">>),
      Some(<<"o"," ","f","f">>) }

Init ==
    /\ _AUTO_UPDATE_RAN = FALSE
    /\ environ \in EnvValues
    /\ gitDirExists \in BOOLEAN
    /\ requirementsExists \in BOOLEAN
    /\ pc = "idle"
    /\ top = "none"
    /\ force = FALSE
    /\ ranAtEntry = FALSE
    /\ local_hash = None
    /\ remote_hash = None
    /\ checked = None
    /\ lastRun = None
    /\ trace = <<>>
    /\ outcome = "none"
    /\ retval = FALSE
    /\ calls = 0
    /\ autoCalls = 0
    /\ sysModules = FALSE
    /\ moduleExecuted = FALSE
    /\ lastLoad = "none"
    /\ loads = 0
    /\ loaderFetches = 0
    /\ tpc = [t \in Threads |-> "call"]
    /\ raced = FALSE
    /\ threadFetches = 0

Next ==
    \/ \E f \in BOOLEAN : AutoUpdateIfNeeded(f)
    \/ CheckForUpdates
    \/ PerformUpdate
    \/ GitFetch
    \/ GitRevParseHead
    \/ GitRevParseUpstream
    \/ GitDiff
    \/ GitPull

Spec == Init /\ [][Next]_vars

LoaderNext ==
    \/ EnsureAutoUpdate
    \/ GitFetch
    \/ GitRevParseHead
    \/ GitRevParseUpstream
    \/ GitDiff
    \/ GitPull

LoaderSpec == Init /\ [][LoaderNext]_vars

(* Threads calling auto_update_if_needed(force=False) of one module at the    *)
(* same time.  The read of the flag (line 124) and its write (line 126) are   *)
(* separate steps: nothing in the code keeps another thread from running      *)
(* between them.                                                              *)

callVars == <<pc, top, force, ranAtEntry, local_hash, remote_hash, checked, lastRun,
              trace, outcome, retval, calls, autoCalls, loaderVars, loaderFetches>>

ThreadGoes(t, p) == tpc' = [tpc EXCEPT ![t] = p]

\* if _AUTO_UPDATE_RAN and not force: return False
ThreadGate(t) ==
    /\ tpc[t] = "call"
    /\ ThreadGoes(t, IF GateClosed(_AUTO_UPDATE_RAN, FALSE) THEN "returned" ELSE "set")
    /\ raced' = (raced \/ \E u \in Threads \ {t} : tpc[u] = "set")
    /\ UNCHANGED <<_AUTO_UPDATE_RAN, environ, gitDirExists, requirementsExists,
                   threadFetches, callVars>>

\* _AUTO_UPDATE_RAN = True
ThreadSetFlag(t) ==
    /\ tpc[t] = "set"
    /\ _AUTO_UPDATE_RAN' = FlagAfterGate
    /\ ThreadGoes(t, "toggle")
    /\ UNCHANGED <<environ, gitDirExists, requirementsExists, raced, threadFetches, callVars>>

\* the toggle and check_for_updates up to its first git command
ThreadToggle(t) ==
    /\ tpc[t] = "toggle"
    /\ ThreadGoes(t, IF Disabled(EnvValue(environ)) \/ ~_is_git_repo THEN "returned" ELSE "fetch")
    /\ UNCHANGED <<_AUTO_UPDATE_RAN, environ, gitDirExists, requirementsExists,
                   raced, threadFetches, callVars>>

\* _, error = _run_git_command(["git", "fetch"])
ThreadFetch(t) ==
    /\ tpc[t] = "fetch"
    /\ threadFetches' = threadFetches + 1
    /\ \E o \in FetchOutcomes :
           ThreadGoes(t, IF Truthy(_run_git_command(o)[2]) THEN "returned" ELSE "rest")
    /\ UNCHANGED <<_AUTO_UPDATE_RAN, environ, gitDirExists, requirementsExists, raced, callVars>>

\* the rest of the call, from git rev-parse HEAD on
ThreadRest(t) ==
    /\ tpc[t] = "rest"
    /\ ThreadGoes(t, "returned")
    /\ UNCHANGED <<_AUTO_UPDATE_RAN, environ, gitDirExists, requirementsExists,
                   raced, threadFetches, callVars>>

ThreadNext ==
    \E t \in Threads :
        \/ ThreadGate(t)
        \/ ThreadSetFlag(t)
        \/ ThreadToggle(t)
        \/ ThreadFetch(t)
        \/ ThreadRest(t)

ThreadSpec == Init /\ [][ThreadNext]_vars

TypeOK ==
    /\ _AUTO_UPDATE_RAN \in BOOLEAN
    /\ pc \in {"idle", "fetch", "rev-parse HEAD", "rev-parse @{u}", "diff", "pull"}
    /\ outcome \in {"none", "running", "returned", "raised"}
    /\ retval \in BOOLEAN
    /\ calls \in 0..MaxCalls
    /\ autoCalls \in 0..calls

---------------------------------------------------------------------------
(* What the claims speak of *)

GitCommands(tr) == SelectSeq(tr, LAMBDA e : e.kind = "git")
Logs(tr) == SelectSeq(tr, LAMBDA e : e.kind = "log")
Ran(tr, command) == \E i \in 1..Len(tr) : tr[i].kind = "git" /\ tr[i].arg = command
RanPrefix(tr, words) ==
    \E i \in 1..Len(tr) :
        /\ tr[i].kind = "git"
        /\ Len(tr[i].arg) >= Len(words)
        /\ SubSeq(tr[i].arg, 1, Len(words)) = words
LastLogged(tr, text) ==
    /\ tr # <<>>
    /\ tr[Len(tr)].kind = "log"
    /\ Join(tr[Len(tr)].arg) = text

Fetch == <<"git", "fetch">>
RevParseHead == <<"git", "rev-parse", "HEAD">>
RevParseUpstream == <<"git", "rev-parse", "@{u}">>
DiffWords == <<"git", "diff", "--name-only">>
Pull == <<"git", "pull", "--ff-only">>

InAuto == top = "auto_update_if_needed"
InCheck == top = "check_for_updates"
Returned == pc = "idle" /\ outcome = "returned"
ReturnedFalse == Returned /\ retval = FALSE
\* the running or last call of auto_update_if_needed went past the gate
PassedGate == InAuto /\ (force \/ ~ranAtEntry)

\* C1: of the calls of auto_update_if_needed(force=False) in one process, every
\* call from the second on returns False and leaves no event at all: no git
\* command, no read of the environment toggle, no log line.
C1_LaterUnforcedCallsAreNoOps ==
    (InAuto /\ ~force /\ autoCalls >= 2) => (ReturnedFalse /\ trace = <<>>)

C1_Witness ==
    /\ InAuto /\ ~force /\ autoCalls >= 2
    /\ ReturnedFalse
    /\ gitDirExists /\ environ = None

\* C2: auto_update_if_needed and check_for_updates never raise to their caller.
C2_NeverRaises == outcome # "raised"

\* C3: perform_update returns True if and only if the pull exits with code 0,
\* and after a failing pull the last thing it did was to log the failure.
C3_TrueIffPullExit0 ==
    (top = "perform_update" /\ pc = "idle") =>
        /\ outcome = "returned"
        /\ retval <=> lastRun[1].outcome.kind = "ok"
        /\ lastRun[1].outcome.kind # "ok" =>
               /\ trace[Len(trace)].kind = "log"
               /\ trace[Len(trace)].arg[1] = "Failed to apply update automatically: "

\* C4: _run_git_command returns (trimmed stdout, None) on exit code 0 and
\* (None, errorText) with a non-empty errorText otherwise.
C4_FailureHasErrorText ==
    lastRun # None =>
        LET o == lastRun[1].outcome
            r == lastRun[1].result
        IN  IF o.kind = "ok"
            THEN r[1] # None /\ r[2] = None
            ELSE r[1] = None /\ r[2] # None /\ Join(r[2][1]) # ""

\* The values of the toggle that the claim takes to disable the update: "0",
\* "false", "off" in any case and with surrounding white space.
DisablingValues ==
    { Some(<<"0">>), Some(<<" ", "0", "\n">>), Some(<<"f","a","l","s","e">>),
      Some(<<"F","a","l","s","e">>), Some(<<"O","F","F">>), Some(<<"o","f","F"," ">>) }

\* check_for_updates has been entered by the call
CheckStarted ==
    checked # None \/ outcome = "raised" \/ pc \in {"fetch", "rev-parse HEAD", "rev-parse @{u}", "diff"}

\* C5: a call of auto_update_if_needed that passes the gate with the toggle
\* set to a disabling value runs no git command and returns False; with any
\* other value, or with the toggle unset, it enters check_for_updates.
C5_ToggleDisables ==
    PassedGate =>
        IF environ \in DisablingValues
        THEN ReturnedFalse /\ GitCommands(trace) = <<>> /\ ~CheckStarted
        ELSE CheckStarted

C5_Witness ==
    /\ PassedGate /\ environ = Some(<<"o","f","F"," ">>)
    /\ ReturnedFalse /\ GitCommands(trace) = <<>>

C5_WitnessEnabled ==
    PassedGate /\ environ = Some(<<"o"," ","f","f">>) /\ Ran(trace, Fetch)

\* the fetch of the running call failed with the text "network unreachable"
FetchUnreachable ==
    /\ lastRun # None
    /\ lastRun[1].command = Fetch
    /\ lastRun[1].outcome.kind = "CalledProcessError"
    /\ lastRun[1].outcome.stderr = <<"network unreachable", "\n">>

FetchErrorHandled(text) ==
    /\ checked # None
    /\ checked[1].status = ERROR
    /\ Join(checked[1].message) = text
    /\ checked[1].dependencies_changed = FALSE
    /\ pc = "idle"
    /\ GitCommands(trace) = <<[kind |-> "git", arg |-> Fetch, ok |-> FALSE]>>
    /\ InAuto => (ReturnedFalse /\ LastLogged(trace, text))

\* C6 as claimed: a fetch failing with "network unreachable" gives exactly
\* (Error, "failed to fetch from remote: network unreachable", false).
C6_Original ==
    FetchUnreachable => FetchErrorHandled("failed to fetch from remote: network unreachable")

\* C6: a fetch failing with "network unreachable" gives exactly (Error,
\* "Failed to fetch from remote: network unreachable", false); the orchestrator
\* logs that message and returns False, and no rev-parse, diff or pull runs.
C6_FetchFailure ==
    FetchUnreachable => FetchErrorHandled("Failed to fetch from remote: network unreachable")

C6_Witness ==
    /\ InAuto /\ FetchUnreachable
    /\ FetchErrorHandled("Failed to fetch from remote: network unreachable")

PullSucceeded ==
    \E i \in 1..Len(trace) : trace[i] = [kind |-> "git", arg |-> Pull, ok |-> TRUE]

\* C7: auto_update_if_needed returns True if and only if check_for_updates
\* returned AHEAD and the pull was then run and succeeded; the pull is never
\* run unless check_for_updates returned AHEAD.
C7_TrueIffAheadAndPulled ==
    InAuto =>
        /\ Returned => (retval <=> (checked # None /\ checked[1].status = AHEAD /\ PullSucceeded))
        /\ (pc = "pull" \/ Ran(trace, Pull)) => (checked # None /\ checked[1].status = AHEAD)

\* the two rev-parse commands of the running call returned the same identifier
SameIdentifiers ==
    /\ local_hash # None /\ remote_hash # None
    /\ Join(local_hash[1]) = Join(remote_hash[1])

\* C8: when the two rev-parse commands return equal identifiers,
\* check_for_updates returns UP_TO_DATE with dependencies_changed false, and
\* auto_update_if_needed logs nothing, runs neither diff nor pull, returns False.
C8_EqualIdentifiers ==
    SameIdentifiers =>
        /\ checked # None
        /\ checked[1].status = UP_TO_DATE
        /\ checked[1].dependencies_changed = FALSE
        /\ pc = "idle"
        /\ ~RanPrefix(trace, DiffWords) /\ ~Ran(trace, Pull)
        /\ InAuto => (ReturnedFalse /\ Logs(trace) = <<>>)

C8_Witness ==
    /\ InAuto /\ SameIdentifiers
    /\ Ran(trace, RevParseHead) /\ Ran(trace, RevParseUpstream)
    /\ ReturnedFalse

\* check_for_updates is entered by the call
CheckCalled == InCheck \/ (PassedGate /\ environ \notin DisablingValues)

\* C9: without the .git marker check_for_updates returns SKIP with
\* dependencies_changed false and runs no git command; auto_update_if_needed
\* then logs the message and returns False.
C9_NotARepository ==
    (~gitDirExists /\ CheckCalled) =>
        /\ checked # None
        /\ checked[1].status = SKIP
        /\ checked[1].dependencies_changed = FALSE
        /\ GitCommands(trace) = <<>>
        /\ pc = "idle" /\ outcome = "returned"
        /\ InAuto => (retval = FALSE /\ LastLogged(trace, Join(checked[1].message)))

C9_Witness ==
    /\ ~gitDirExists /\ PassedGate /\ environ \notin DisablingValues
    /\ checked # None /\ checked[1].status = SKIP
    /\ ReturnedFalse

\* the chunks of a path after its last separator
RECURSIVE FinalSegment(_)
FinalSegment(p) ==
    IF \E i \in 1..Len(p) : p[i] = "/" THEN FinalSegment(Tail(p)) ELSE p

\* a path that the claim counts as a dependency change
DependencyPath(p) ==
    \/ p = <<"requirements.txt">>
    \/ LET seg == FinalSegment(p) IN seg # <<>> /\ seg[Len(seg)] = "plugin.json"

\* the changed-path listing of the running call succeeded
DiffListed ==
    /\ lastRun # None
    /\ lastRun[1].command[2] = "diff"
    /\ lastRun[1].outcome.kind = "ok"

\* C10: when the identifiers differ and the listing succeeds, check_for_updates
\* returns AHEAD, with dependencies_changed true if and only if the listed
\* paths contain the exact path "requirements.txt" or a path whose final
\* segment ends with plugin.json.
C10_DependencyClassification ==
    DiffListed =>
        /\ checked # None
        /\ checked[1].status = AHEAD
        /\ checked[1].dependencies_changed <=>
               \E i \in 1..Len(lastRun[1].outcome.paths) :
                   DependencyPath(lastRun[1].outcome.paths[i])

C10_Witness ==
    /\ DiffListed
    /\ lastRun[1].outcome.paths = << <<"subdir", "/", "plugin.json">> >>
    /\ checked # None /\ checked[1].dependencies_changed

C10_WitnessFalse ==
    /\ DiffListed
    /\ lastRun[1].outcome.paths = << <<"readme.md">> >>
    /\ checked # None /\ ~checked[1].dependencies_changed

\* the changed-path listing of the running call failed
DiffFailed ==
    /\ lastRun # None
    /\ lastRun[1].command[2] = "diff"
    /\ lastRun[1].outcome.kind # "ok"

\* C11: when the identifiers differ and the changed-path listing fails, for any
\* failure of that command, check_for_updates returns AHEAD with
\* dependencies_changed true.
C11_ListingFailureDegrades ==
    DiffFailed =>
        /\ outcome # "raised"
        /\ checked # None
        /\ checked[1].status = AHEAD
        /\ checked[1].dependencies_changed = TRUE

\* C15: check_for_updates called alone issues fetch, rev-parse and diff
\* commands only, never the pull, and leaves the one-shot flag as it was.
C15_CheckAloneMutatesNothing ==
    InCheck =>
        /\ pc # "pull"
        /\ ~Ran(trace, Pull)
        /\ \A i \in 1..Len(trace) :
               /\ trace[i].kind = "git"
               /\ trace[i].arg[2] \in {"fetch", "rev-parse", "diff"}
        /\ _AUTO_UPDATE_RAN = ranAtEntry

C15_Witness ==
    /\ InCheck /\ Returned
    /\ checked # None /\ checked[1].status = AHEAD
    /\ RanPrefix(trace, DiffWords)
    /\ ~_AUTO_UPDATE_RAN

\* the position of a command in the order fetch, local head, upstream, listing
Rank(command) ==
    CASE command = Fetch -> 1
      [] command = RevParseHead -> 2
      [] command = RevParseUpstream -> 3
      [] command[2] = "diff" -> 4
      [] OTHER -> 5

\* C16: within one call of check_for_updates the commands are issued in the
\* order fetch, local head, upstream, listing, each at most once and only if
\* every earlier command succeeded; a failed fetch, local-head or upstream
\* resolution ends the call with ERROR and dependencies_changed false.
C16_CommandOrder ==
    InCheck =>
        LET cmds == GitCommands(trace)
        IN  /\ \A i \in 1..Len(cmds) : Rank(cmds[i].arg) = i
            /\ \A i \in 1..Len(cmds) : \A j \in 1..(i - 1) : cmds[j].ok
            /\ \A i \in 1..Len(cmds) :
                   (~cmds[i].ok /\ i <= 3) =>
                       /\ pc = "idle" /\ outcome = "returned"
                       /\ checked # None
                       /\ checked[1].status = ERROR
                       /\ checked[1].dependencies_changed = FALSE
            /\ Len(cmds) = 4 => local_hash # remote_hash

\* C17: a call that passes the gate sets the flag before it reads the toggle
\* or runs a command, and the flag stays true from the first call of
\* auto_update_if_needed on, however that call and the later ones end.
C17_GateConsumedFirst ==
    /\ autoCalls >= 1 => _AUTO_UPDATE_RAN
    /\ PassedGate => (trace # <<>> /\ trace[1] = SetFlagEvent)
    /\ InAuto => \A i \in 2..Len(trace) : trace[i] # SetFlagEvent

C17_Witness ==
    /\ InAuto /\ ~force /\ ~ranAtEntry
    /\ outcome = "raised"
    /\ _AUTO_UPDATE_RAN

C17_WitnessDisabled ==
    /\ InAuto /\ ~ranAtEntry /\ environ = Some(<<"0">>)
    /\ Returned /\ _AUTO_UPDATE_RAN

\* C18: auto_update_if_needed(force=True) with the flag already true sets the
\* flag, reads the toggle and, unless the toggle disables it, enters
\* check_for_updates; the flag is true afterwards, and an unforced call that
\* finds it true does nothing.
C18_ForceBypassesGate ==
    /\ (InAuto /\ force /\ ranAtEntry) =>
           /\ Len(trace) >= 2
           /\ trace[1] = SetFlagEvent
           /\ trace[2] = GetEnvEvent
           /\ environ \notin DisablingValues => CheckStarted
           /\ _AUTO_UPDATE_RAN
    /\ (InAuto /\ ~force /\ ranAtEntry) => (ReturnedFalse /\ trace = <<>> /\ _AUTO_UPDATE_RAN)

C18_Witness ==
    /\ InAuto /\ force /\ ranAtEntry
    /\ Ran(trace, Fetch) /\ Ran(trace, Pull)
    /\ Returned /\ retval

C18_WitnessLater ==
    /\ InAuto /\ ~force /\ ranAtEntry /\ autoCalls = 3
    /\ ReturnedFalse

Logged(tr, text) ==
    \E i \in 1..Len(tr) : tr[i].kind = "log" /\ Join(tr[i].arg) = text

RestartNotice ==
    "Repository updated successfully. Please restart ComfyUI to load the new code."
DependencyNotice ==
    "Detected dependency changes. Run 'pip install -r requirements.txt' if additional packages are required."

\* C19: auto_update_if_needed logs the restart notice exactly when the pull
\* succeeded in that call, and the dependency notice exactly when moreover the
\* check result had dependencies_changed true and requirements.txt exists.
C19_Notices ==
    (InAuto /\ pc = "idle") =>
        /\ Logged(trace, RestartNotice) <=> PullSucceeded
        /\ Logged(trace, DependencyNotice) <=>
               (PullSucceeded /\ checked[1].dependencies_changed /\ requirementsExists)

InEnsure == top = "ensure_auto_update"

\* C12: ensure_auto_update never raises to the host: with update.py absent,
\* with a load that fails, and with an orchestrator call that raises, the call
\* returns normally.
C12_EnsureNeverRaises ==
    InEnsure =>
        /\ outcome \in {"running", "returned"}
        /\ pc = "idle" => outcome = "returned"

C12_Witness ==
    /\ InEnsure /\ Returned
    /\ RanPrefix(trace, DiffWords)
    /\ LastLogged(trace, "Skipping due to unexpected error: 'NoneType' object has no attribute 'splitlines'")

C12_WitnessLoadFails ==
    /\ InEnsure /\ Returned /\ lastLoad = "raises"
    /\ LastLogged(trace, "Skipping due to unexpected error: invalid syntax")

\* C13: after every call of _load_update_module the key is in sys.modules only
\* if the module was executed to completion; after a failed execution it is
\* not, and a call reuses a registered module only if it is complete.
C13_NoPartialModule ==
    /\ sysModules => moduleExecuted
    /\ lastLoad = "raises" => ~sysModules
    /\ lastLoad = "reused" => (sysModules /\ moduleExecuted)

C13_Witness ==
    /\ calls >= 2 /\ loads = 0
    /\ lastLoad = "raises" /\ ~sysModules

C13_WitnessRetry ==
    /\ calls = 3 /\ loads = 1
    /\ lastLoad = "executes" /\ sysModules /\ moduleExecuted

\* C14: over the calls of ensure_auto_update in one process the module is
\* loaded at most once, every later call reuses it, and git fetch runs at
\* most once in total.
C14_OneInstanceOneCheck ==
    /\ loads <= 1
    /\ loaderFetches <= 1
    /\ (InEnsure /\ loads = 1 /\ lastLoad # "executes") => lastLoad = "reused"
    /\ (InEnsure /\ lastLoad = "reused") => (ReturnedFalse /\ trace = <<>>)

C14_Witness ==
    /\ InEnsure /\ calls = 3
    /\ loads = 1 /\ loaderFetches = 1
    /\ lastLoad = "reused" /\ ReturnedFalse

\* C20: the gate is an unguarded read-then-write: threads calling
\* auto_update_if_needed() at the same time run git fetch more than once only
\* if one of them read the flag between another's read and write, and at most
\* once otherwise; the state with two fetches is reachable (C20_Witness).
C20_AtMostOnceUnlessRaced ==
    /\ threadFetches <= 1 \/ raced
    /\ Cardinality({t \in Threads : tpc[t] \in {"set", "toggle", "fetch", "rest"}}) >= 2 => raced

C20_Witness ==
    /\ raced
    /\ threadFetches = 2
    /\ \A t \in Threads : tpc[t] = "returned"
=============================================================================
